---- MODULE Spec2Model ----
(***************************************************************************)
(* A model of cosmos_auth_package: the User record (schemas.py), the       *)
(* UserVerifier facade over a Cosmos DB container (user_verifier.py) and   *)
(* the Flask / FastAPI request adapters (auth_decorators.py).              *)
(*                                                                         *)
(* Python values are modelled as sequences of strings.  A str is the       *)
(* sequence of its characters ("a@b" is <<"a","@","b">>), so that split,   *)
(* startswith, slicing and concatenation are computed as Python computes   *)
(* them.  None, True, False and "key absent from a dict" are one-element   *)
(* sequences whose element is not a character, so they differ from every   *)
(* str.                                                                    *)
(***************************************************************************)
EXTENDS Naturals, Sequences, FiniteSets, TLC

VARIABLES
    store,      \* the container: the set of stored documents
    storeDown,  \* TRUE while the store answers every operation with an error
    cur,        \* per caller: its call or request in flight between two
                \* store operations, or idle
    prev,       \* the verifier call completed before `last`
    last,       \* the verifier call completed most recently
    ncalls,     \* number of verifier calls / requests started so far
    request,    \* the request an adapter completed most recently
    response,   \* what the adapter made of it
    schema      \* the User round trip: arguments, user, dict, user again

vars == <<store, storeDown, cur, prev, last, ncalls, request, response, schema>>

----------------------------------------------------------------------------
(* Python values *)

None    == <<"None">>
Missing == <<"Missing">>
PyTrue  == <<"True">>
PyFalse == <<"False">>

\* bool(v) for the values that occur: None, False, "" and [] are falsy.
Truthy(v) == v \notin {None, PyFalse, <<>>}

\* a or b
Or(a, b) == IF Truthy(a) THEN a ELSE b

\* data.get(key) / data.get(key, default) on a field that may be absent
Get(v, default) == IF v = Missing THEN default ELSE v

\* s.split("@")[0]: the part of s before its first "@", all of s if it has none
SplitAt0(s) ==
    LET at == {i \in 1..Len(s) : s[i] = "@"}
    IN  IF at = {} THEN s
        ELSE SubSeq(s, 1, (CHOOSE i \in at : \A j \in at : i <= j) - 1)

\* s.startswith(p)
StartsWith(s, p) == Len(s) >= Len(p) /\ SubSeq(s, 1, Len(p)) = p

----------------------------------------------------------------------------
(* schemas.py *)

USER      == <<"u","s","e","r">>
ADMIN     == <<"a","d","m","i","n">>
MODERATOR == <<"m","o","d","e","r","a","t","o","r">>
VIEWER    == <<"v","i","e","w","e","r">>

\* the f"user_{...}" prefix of the item id
IdPrefix == <<"u","s","e","r","_">>

\* str(v), as the f-string formats the user_id: a str is itself, None is "None"
Str(v) ==
    IF v = None THEN <<"N","o","n","e">>
    ELSE IF v = PyTrue THEN <<"T","r","u","e">>
    ELSE IF v = PyFalse THEN <<"F","a","l","s","e">>
    ELSE v

\* v is a str: it has the method split
IsStr(v) == v \notin {None, Missing, PyTrue, PyFalse}

NoUser == [ id |-> None, type |-> None, user_id |-> None, email |-> None,
            username |-> None, role |-> None, display_name |-> None,
            is_active |-> None, agents |-> None, created_at |-> None,
            updated_at |-> None ]

\* the outcome of User.__init__ when it raises: email.split is evaluated
\* when username is falsy, and fails with AttributeError on an email that
\* is not a str
RaisedUser == [NoUser EXCEPT !.type = <<"AttributeError">>]

\* s.split("@")[-2], as if the name were cut at the last "@"
SplitAtLast(s) ==
    LET at == {i \in 1..Len(s) : s[i] = "@"}
    IN  IF at = {} THEN s
        ELSE SubSeq(s, 1, (CHOOSE i \in at : \A j \in at : i >= j) - 1)

\* a mutant of User.__init__: the default username is cut at the last "@"
User_cuts_at_last_at(user_id, email, username, role, display_name, is_active, kw) ==
    IF ~Truthy(username) /\ ~IsStr(email) THEN RaisedUser
    ELSE
    [ id           |-> IdPrefix \o Str(user_id),
      type         |-> USER,
      user_id      |-> user_id,
      email        |-> email,
      username     |-> Or(username, SplitAtLast(email)),
      role         |-> Or(role, USER),
      display_name |-> Or(Or(display_name, username), email),
      is_active    |-> is_active,
      agents       |-> IF kw.agents = Missing THEN <<>> ELSE kw.agents,
      created_at   |-> IF kw.created_at = Missing THEN None ELSE kw.created_at,
      updated_at   |-> IF kw.updated_at = Missing THEN None ELSE kw.updated_at ]

\* User.__init__; kw holds the **kwargs agents, created_at, updated_at
\* (Missing when the keyword was not passed).
User(user_id, email, username, role, display_name, is_active, kw) ==
    IF ~Truthy(username) /\ ~IsStr(email) THEN RaisedUser
    ELSE
    [ id           |-> IdPrefix \o Str(user_id),
      type         |-> USER,
      user_id      |-> user_id,
      email        |-> email,
      username     |-> Or(username, SplitAt0(email)),
      role         |-> Or(role, USER),
      display_name |-> Or(Or(display_name, username), email),
      is_active    |-> is_active,
      agents       |-> Get(kw.agents, <<>>),
      created_at   |-> Get(kw.created_at, None),
      updated_at   |-> Get(kw.updated_at, None) ]

NoKw == [agents |-> Missing, created_at |-> Missing, updated_at |-> Missing]

\* a mutant of to_dict: the is_active key is left out of the dictionary
to_dict_drops_is_active(u) ==
    [ id           |-> u.id,
      type         |-> u.type,
      user_id      |-> u.user_id,
      email        |-> u.email,
      username     |-> u.username,
      role         |-> u.role,
      display_name |-> u.display_name,
      is_active    |-> Missing,
      agents       |-> u.agents,
      created_at   |-> u.created_at,
      updated_at   |-> u.updated_at ]

\* User.to_dict
to_dict(u) ==
    [ id           |-> u.id,
      type         |-> u.type,
      user_id      |-> u.user_id,
      email        |-> u.email,
      username     |-> u.username,
      role         |-> u.role,
      display_name |-> u.display_name,
      is_active    |-> u.is_active,
      agents       |-> u.agents,
      created_at   |-> u.created_at,
      updated_at   |-> u.updated_at ]

\* User.from_dict
from_dict(data) ==
    User(Get(data.user_id, <<>>),
         Get(data.email, <<>>),
         Get(data.username, None),
         Get(data.role, None),
         Get(data.display_name, None),
         Get(data.is_active, PyTrue),
         [ agents     |-> Get(data.agents, <<>>),
           created_at |-> Get(data.created_at, None),
           updated_at |-> Get(data.updated_at, None) ])

----------------------------------------------------------------------------
(* The Cosmos DB container (external).  A document is addressed by its id  *)
(* and its partition key; the container is partitioned on /user_id, the    *)
(* value every read and patch of user_verifier.py passes as partition_key. *)
(* Each operation is atomic.  While storeDown holds, every operation       *)
(* raises an error that is not CosmosResourceNotFoundError.                *)

NoDoc == [ id |-> Missing, type |-> Missing, user_id |-> Missing, email |-> Missing,
           username |-> Missing, role |-> Missing, display_name |-> Missing,
           is_active |-> Missing, agents |-> Missing, created_at |-> Missing,
           updated_at |-> Missing ]

Hits(st, item, pk) == {d \in st : d.id = item /\ d.user_id = pk}

\* container.read_item(item=, partition_key=)
read_item(st, down, item, pk) ==
    IF down THEN [status |-> "error", item |-> NoDoc]
    ELSE IF Hits(st, item, pk) = {} THEN [status |-> "not_found", item |-> NoDoc]
    ELSE [status |-> "ok", item |-> CHOOSE d \in Hits(st, item, pk) : TRUE]

\* container.upsert_item(body): create, or replace the whole document
upsert_item(st, down, body) ==
    IF down THEN [status |-> "error", store |-> st]
    ELSE [status |-> "ok",
          store  |-> (st \ Hits(st, body.id, body.user_id)) \cup {body}]

\* container.patch_item(item=, partition_key=, [{'op':'set','path':'/role','value':v}])
patch_item(st, down, item, pk, v) ==
    IF down THEN [status |-> "error", store |-> st]
    ELSE IF Hits(st, item, pk) = {} THEN [status |-> "not_found", store |-> st]
    ELSE [status |-> "ok",
          store  |-> (st \ Hits(st, item, pk))
                     \cup {[d EXCEPT !.role = v] : d \in Hits(st, item, pk)}]

----------------------------------------------------------------------------
(* user_verifier.py.  Each operator gives the outcome of one call on the   *)
(* store st: kind is "user" (a User is returned), "none" (None), "true" /  *)
(* "false" (a bool) or "raised" (an exception leaves the call); store is   *)
(* the store after the call and ops the store operations it issued.        *)

\* UserVerifier.get_user (get_user_by_email is the same call).  The read and
\* from_dict are in one try: the call raises when the read fails with
\* anything but not-found, and also when from_dict raises on the item read.
get_user(st, down, user_id) ==
    LET r == read_item(st, down, IdPrefix \o user_id, user_id)
    IN  IF r.status = "ok" /\ from_dict(r.item) # RaisedUser
        THEN [kind |-> "user", user |-> from_dict(r.item), store |-> st,
              ops |-> <<"read_item">>]
        ELSE IF r.status = "not_found"
        THEN [kind |-> "none", user |-> NoUser, store |-> st, ops |-> <<"read_item">>]
        ELSE [kind |-> "raised", user |-> NoUser, store |-> st, ops |-> <<"read_item">>]

\* UserVerifier.verify_user_exists
verify_user_exists(st, down, user_id) ==
    LET g == get_user(st, down, user_id)
    IN  [kind |-> IF g.kind = "user" THEN "true" ELSE "false",
         user |-> NoUser, store |-> g.store, ops |-> g.ops]

\* a mutant of create_user: the record is inserted, not upserted, so that
\* the store refuses it with a conflict when the key is taken
create_user_inserts(st, down, email, username, role, display_name) ==
    LET user == User(email, email, username, role, display_name, PyTrue, NoKw)
        w    == upsert_item(st, down, to_dict(user))
    IN  IF user = RaisedUser
        THEN [kind |-> "raised", user |-> NoUser, store |-> st, ops |-> <<>>]
        ELSE IF w.status = "ok" /\ Hits(st, user.id, user.user_id) = {}
        THEN [kind |-> "user", user |-> user, store |-> w.store,
              ops |-> <<"upsert_item">>]
        ELSE [kind |-> "raised", user |-> NoUser, store |-> st,
              ops |-> <<"upsert_item">>]

\* UserVerifier.create_user, called without further keyword arguments
create_user(st, down, email, username, role, display_name) ==
    LET user == User(email, email, username, role, display_name, PyTrue, NoKw)
        w    == upsert_item(st, down, to_dict(user))
    IN  IF user = RaisedUser
        THEN [kind |-> "raised", user |-> NoUser, store |-> st, ops |-> <<>>]
        ELSE IF w.status = "ok"
        THEN [kind |-> "user", user |-> user, store |-> w.store,
              ops |-> <<"upsert_item">>]
        ELSE [kind |-> "raised", user |-> NoUser, store |-> st,
              ops |-> <<"upsert_item">>]

\* a mutant of update_user_role: the role is written with an upsert of a
\* fresh record instead of a patch
update_user_role_upserts(st, down, user_id, new_role) ==
    LET c == create_user(st, down, user_id, None, new_role, None)
    IN  [kind |-> IF c.kind = "user" THEN "true" ELSE "false",
         user |-> NoUser, store |-> c.store, ops |-> c.ops]

\* UserVerifier.update_user_role
update_user_role(st, down, user_id, new_role) ==
    LET w == patch_item(st, down, IdPrefix \o user_id, user_id, new_role)
    IN  [kind |-> IF w.status = "ok" THEN "true" ELSE "false",
         user |-> NoUser, store |-> w.store, ops |-> <<"patch_item">>]

----------------------------------------------------------------------------
(* Callers of the verifier.  Every call but get_or_create_user is one      *)
(* store round trip and is one step.  get_or_create_user is two steps, its *)
(* lookup and its create, and the steps of other callers may fall between  *)
(* them.  prev and last record the two calls completed most recently, each *)
(* with the store as its first store operation found it (before) and as    *)
(* the call left it (after).  proc names the caller of a                   *)
(* get_or_create_user call; the one-step calls are made by any caller that *)
(* has no call in flight and record proc 0.                                *)

Procs == {1, 2}

\* calls and requests made in one behaviour
MaxCalls == 3

E1 == <<"a","@","b","@","c">>
E2 == <<"d">>
Emails == {E1, E2}

\* the optional arguments of create_user / get_or_create_user
Profiles ==
    { [username |-> None,    role |-> None,   display_name |-> None],
      [username |-> <<"n">>, role |-> ADMIN,  display_name |-> <<"D">>] }

NewRoles == {MODERATOR}

\* a record written by another system, without the optional keys
LegacyDoc(e) == [NoDoc EXCEPT !.id = IdPrefix \o e, !.user_id = e, !.email = e]

\* a record written by another system, whose email is null
NullEmailDoc(e) == [NoDoc EXCEPT !.id = IdPrefix \o e, !.user_id = e, !.email = None]

InitStores ==
    { {},
      {to_dict(User(E1, E1, None, VIEWER, None, PyFalse, NoKw))},
      {LegacyDoc(E2)},
      {NullEmailDoc(E2)} }

NoCall ==
    [ proc |-> 0, op |-> "none", email |-> None, username |-> None, role |-> None,
      display_name |-> None, kind |-> "none", user |-> NoUser, ops |-> <<>>,
      fault |-> FALSE, before |-> {}, after |-> {} ]

Call(p, op, e, pr, res, ops, fault, before) ==
    [ proc |-> p, op |-> op, email |-> e, username |-> pr.username, role |-> pr.role,
      display_name |-> pr.display_name, kind |-> res.kind, user |-> res.user,
      ops |-> ops, fault |-> fault, before |-> before, after |-> res.store ]

NoProfile == [username |-> None, role |-> None, display_name |-> None]

Idle(p) == cur[p].op = "none"

Complete(rec) ==
    /\ prev' = last
    /\ last' = rec
    /\ store' = rec.after

CallGetUser(e) ==
    /\ \E p \in Procs : Idle(p)
    /\ ncalls < MaxCalls
    /\ Complete(Call(0, "get_user", e, NoProfile, get_user(store, storeDown, e),
                     get_user(store, storeDown, e).ops, storeDown, store))
    /\ ncalls' = ncalls + 1
    /\ UNCHANGED <<storeDown, cur, request, response, schema>>

CallVerifyUserExists(e) ==
    /\ \E p \in Procs : Idle(p)
    /\ ncalls < MaxCalls
    /\ Complete(Call(0, "verify_user_exists", e, NoProfile,
                     verify_user_exists(store, storeDown, e),
                     verify_user_exists(store, storeDown, e).ops, storeDown, store))
    /\ ncalls' = ncalls + 1
    /\ UNCHANGED <<storeDown, cur, request, response, schema>>

CallCreateUser(e, pr) ==
    /\ \E p \in Procs : Idle(p)
    /\ ncalls < MaxCalls
    /\ LET res == create_user(store, storeDown, e, pr.username, pr.role, pr.display_name)
       IN  Complete(Call(0, "create_user", e, pr, res, res.ops, storeDown, store))
    /\ ncalls' = ncalls + 1
    /\ UNCHANGED <<storeDown, cur, request, response, schema>>

CallUpdateUserRole(e, r) ==
    /\ \E p \in Procs : Idle(p)
    /\ ncalls < MaxCalls
    /\ LET res == update_user_role(store, storeDown, e, r)
       IN  Complete(Call(0, "update_user_role", e, [NoProfile EXCEPT !.role = r],
                         res, res.ops, storeDown, store))
    /\ ncalls' = ncalls + 1
    /\ UNCHANGED <<storeDown, cur, request, response, schema>>

\* a mutant of get_or_create_user: the user the lookup found is not
\* returned, the call goes on to create whenever the lookup did not raise
GetOrCreateLookup_always_creates(p, e, pr) ==
    /\ Idle(p) /\ ncalls < MaxCalls
    /\ LET res == get_user(store, storeDown, e)
       IN  IF res.kind # "raised"
           THEN /\ cur' = [cur EXCEPT ![p] =
                            [Call(p, "get_or_create_user", e, pr, res, res.ops,
                                  storeDown, store) EXCEPT !.kind = "pending"]]
                /\ UNCHANGED <<store, prev, last>>
           ELSE /\ Complete(Call(p, "get_or_create_user", e, pr, res, res.ops,
                                 storeDown, store))
                /\ UNCHANGED cur
    /\ ncalls' = ncalls + 1
    /\ UNCHANGED <<storeDown, request, response, schema>>

\* get_or_create_user, line 158-160: the lookup; the call returns the user
\* it found, or the lookup's exception leaves it
GetOrCreateLookup(p, e, pr) ==
    /\ Idle(p) /\ ncalls < MaxCalls
    /\ LET res == get_user(store, storeDown, e)
       IN  IF res.kind = "none"
           THEN /\ cur' = [cur EXCEPT ![p] =
                            [Call(p, "get_or_create_user", e, pr, res, res.ops,
                                  storeDown, store) EXCEPT !.kind = "pending"]]
                /\ UNCHANGED <<store, prev, last>>
           ELSE /\ Complete(Call(p, "get_or_create_user", e, pr, res, res.ops,
                                 storeDown, store))
                /\ UNCHANGED cur
    /\ ncalls' = ncalls + 1
    /\ UNCHANGED <<storeDown, request, response, schema>>

\* get_or_create_user, line 162-167: the create after a lookup that missed
GetOrCreateCreate(p) ==
    /\ cur[p].kind = "pending"
    /\ LET c   == cur[p]
           res == create_user(store, storeDown, c.email, c.username, c.role,
                              c.display_name)
       IN  Complete([c EXCEPT !.kind = res.kind, !.user = res.user,
                              !.ops = c.ops \o res.ops,
                              !.fault = c.fault \/ storeDown,
                              !.after = res.store])
    /\ cur' = [cur EXCEPT ![p] = NoCall]
    /\ UNCHANGED <<storeDown, ncalls, request, response, schema>>

\* the store becomes unavailable, or available again
StoreOutage ==
    /\ storeDown' = ~storeDown
    /\ UNCHANGED <<store, cur, prev, last, ncalls, request, response, schema>>

NoRequest == [adapter |-> "none"]
NoSchema == [phase |-> "none"]

InitVerifier ==
    /\ store \in InitStores
    /\ storeDown = FALSE
    /\ cur = [p \in Procs |-> NoCall]
    /\ prev = NoCall
    /\ last = NoCall
    /\ ncalls = 0
    /\ request = NoRequest
    /\ response = NoRequest
    /\ schema = NoSchema

NextVerifier ==
    \/ \E e \in Emails : CallGetUser(e)
    \/ \E e \in Emails : CallVerifyUserExists(e)
    \/ \E e \in Emails, pr \in Profiles : CallCreateUser(e, pr)
    \/ \E e \in Emails, r \in NewRoles : CallUpdateUserRole(e, r)
    \/ \E p \in Procs, e \in Emails, pr \in Profiles : GetOrCreateLookup(p, e, pr)
    \/ \E p \in Procs : GetOrCreateCreate(p)
    \/ StoreOutage

SpecVerifier == InitVerifier /\ [][NextVerifier]_vars

----------------------------------------------------------------------------
(* auth_decorators.py.  A request is its adapter, its headers (None for a  *)
(* header the request does not carry) and the adapter's configuration.     *)
(* required_roles is a list of roles, or None where the parameter is       *)
(* Optional: is_none tells the two apart.  An adapter waits on the store   *)
(* twice when it auto-creates, so each has an operator for the part up to  *)
(* the return of get_user and one for the part from create_user on.  Each  *)
(* gives the response: the status (200 stands for whatever the handler     *)
(* returns, 500 for an exception that is not an HTTPException and leaves   *)
(* the adapter), whether the handler ran, the identity the lookup was made *)
(* with, and the store.                                                    *)

\* header_name, at its default
header_name == "x-user-email"

HeaderNames == {header_name, "x-user-id", "Authorization"}

Bearer == <<"B","e","a","r","e","r"," ">>

\* the value of the WWW-Authenticate header of the FastAPI 401
WwwBearer == <<"B","e","a","r","e","r">>

\* bool(required_roles)
ListTruthy(rr) == ~rr.is_none /\ rr.list # <<>>

\* role in required_roles
InList(role, rr) == \E i \in 1..Len(rr.list) : rr.list[i] = role

NoG == [current_user |-> NoUser, user_id |-> None, user_email |-> None,
        user_role |-> None]

\* pending: the lookup missed and the adapter goes on to create_user;
\* fault: a store operation of the request met the store down.
Resp(status, www, handler, g, injected, identity, st, ops) ==
    [ status |-> status, www_authenticate |-> www, handler |-> handler, g |-> g,
      injected |-> injected, identity |-> identity, store |-> st, ops |-> ops,
      pending |-> FALSE, fault |-> FALSE ]

\* the adapter between the return of get_user and its call of create_user
Pending(identity, st, ops) ==
    [Resp(0, None, FALSE, NoG, NoUser, identity, st, ops) EXCEPT !.pending = TRUE]

\* require_auth.wrapper, line 79-90: the role check, the request context and
\* the call of the route
require_auth_checks(req, uid, user, st, ops) ==
    IF ListTruthy(req.required_roles) /\ ~InList(user.role, req.required_roles)
    THEN Resp(403, None, FALSE, NoG, NoUser, uid, st, ops)
    ELSE Resp(200, None, TRUE,
              [current_user |-> user, user_id |-> user.user_id,
               user_email |-> user.email, user_role |-> user.role],
              NoUser, uid, st, ops)

\* a mutant of require_auth.wrapper: the role check is made before the
\* lookup result is completed by auto-create, so an unknown identity is
\* refused with 403 before anything is written
require_auth_checks_first(st, down, req) ==
    LET h     == req.headers
        first == h[header_name]
        alt   == Or(h["x-user-id"], h["Authorization"])
        uid   == IF Truthy(first) THEN first
                 ELSE IF Truthy(alt) /\ StartsWith(alt, Bearer)
                      THEN SubSeq(alt, 7 + 1, Len(alt))
                      ELSE alt
        look  == get_user(st, down, uid)
    IN  IF ~Truthy(uid) THEN Resp(401, None, FALSE, NoG, NoUser, None, st, <<>>)
        ELSE IF look.kind = "raised"
        THEN Resp(500, None, FALSE, NoG, NoUser, uid, st, look.ops)
        ELSE IF look.kind = "user"
        THEN require_auth_checks(req, uid, look.user, st, look.ops)
        ELSE IF ~req.auto_create
        THEN Resp(401, None, FALSE, NoG, NoUser, uid, st, look.ops)
        ELSE IF ListTruthy(req.required_roles) /\ ~InList(USER, req.required_roles)
        THEN Resp(403, None, FALSE, NoG, NoUser, uid, st, look.ops)
        ELSE Pending(uid, st, look.ops)

\* require_auth(...).decorator(f).wrapper, the Flask adapter, line 55-68 and,
\* where get_user returned a user or auto_create is off, to its end: the
\* identity, the lookup, and what follows a lookup that needs no create
require_auth(st, down, req) ==
    LET h     == req.headers
        first == h[header_name]
        alt   == Or(h["x-user-id"], h["Authorization"])
        uid   == IF Truthy(first) THEN first
                 ELSE IF Truthy(alt) /\ StartsWith(alt, Bearer)
                      THEN SubSeq(alt, 7 + 1, Len(alt))
                      ELSE alt
        look  == get_user(st, down, uid)
    IN  IF ~Truthy(uid) THEN Resp(401, None, FALSE, NoG, NoUser, None, st, <<>>)
        ELSE IF look.kind = "raised"
        THEN Resp(500, None, FALSE, NoG, NoUser, uid, st, look.ops)
        ELSE IF look.kind = "user"
        THEN require_auth_checks(req, uid, look.user, st, look.ops)
        ELSE IF ~req.auto_create
        THEN Resp(401, None, FALSE, NoG, NoUser, uid, st, look.ops)
        ELSE Pending(uid, st, look.ops)

\* require_auth.wrapper, line 72-75 and on: create_user after the lookup r
\* missed, on the store as it is by then, and the role check on the new user
require_auth_create(st, down, req, r) ==
    LET made == create_user(st, down, r.identity, None, None, r.identity)
    IN  IF made.kind = "raised"
        THEN Resp(500, None, FALSE, NoG, NoUser, r.identity, st, r.ops \o made.ops)
        ELSE require_auth_checks(req, r.identity, made.user, made.store,
                                 r.ops \o made.ops)

\* a mutant of _get_current_user: a request without identity is let through
\* to the lookup with an empty identity
get_current_user_no_check(st, down, req) ==
    LET uid  == Or(req.headers[header_name], req.headers["x-user-id"])
        look == get_user(st, down, IF Truthy(uid) THEN uid ELSE <<>>)
    IN  IF look.kind = "raised"
        THEN Resp(500, None, FALSE, NoG, NoUser, uid, st, look.ops)
        ELSE IF look.kind = "user"
        THEN Resp(200, None, TRUE, NoG, look.user, uid, st, look.ops)
        ELSE IF ~req.auto_create
        THEN Resp(401, WwwBearer, FALSE, NoG, NoUser, uid, st, look.ops)
        ELSE Pending(IF Truthy(uid) THEN uid ELSE <<>>, st, look.ops)

\* get_current_user_fastapi(...)._get_current_user, the FastAPI dependency,
\* line 120-130 and, where get_user returned a user or auto_create is off,
\* to its end; on a return the framework invokes the route with the user
get_current_user_fastapi(st, down, req) ==
    LET uid  == Or(req.headers[header_name], req.headers["x-user-id"])
        look == get_user(st, down, uid)
    IN  IF ~Truthy(uid) THEN Resp(401, WwwBearer, FALSE, NoG, NoUser, None, st, <<>>)
        ELSE IF look.kind = "raised"
        THEN Resp(500, None, FALSE, NoG, NoUser, uid, st, look.ops)
        ELSE IF look.kind = "user"
        THEN Resp(200, None, TRUE, NoG, look.user, uid, st, look.ops)
        ELSE IF ~req.auto_create
        THEN Resp(401, WwwBearer, FALSE, NoG, NoUser, uid, st, look.ops)
        ELSE Pending(uid, st, look.ops)

\* _get_current_user, line 134-137 and 145: create_user after the lookup r
\* missed, on the store as it is by then
get_current_user_create(st, down, req, r) ==
    LET made == create_user(st, down, r.identity, None, None, r.identity)
    IN  IF made.kind = "raised"
        THEN Resp(500, None, FALSE, NoG, NoUser, r.identity, st, r.ops \o made.ops)
        ELSE Resp(200, None, TRUE, NoG, made.user, r.identity, made.store,
                  r.ops \o made.ops)

\* require_role_fastapi(...)._require_role, on the outcome r of the
\* _get_current_user it depends on
require_role_fastapi(req, r) ==
    IF r.status = 200 /\ ~InList(r.injected.role, req.required_roles)
    THEN [r EXCEPT !.status = 403, !.handler = FALSE, !.injected = NoUser]
    ELSE r

----------------------------------------------------------------------------
(* Requests.  A request that needs no create_user is one store round trip  *)
(* and is handled in one step.  An auto-creating request whose lookup      *)
(* missed is two steps, its get_user and its create_user, and an outage of *)
(* the store or the steps of another request may fall between them; cur    *)
(* holds such a request between its two steps.  request and response are   *)
(* the request completed most recently and what the adapter made of it.    *)

\* requests made in one behaviour
MaxRequests == 1

\* the values each header is tried with; None is a header not sent
HeaderValues(name) ==
    IF name = header_name THEN {None, <<>>, E1}
    ELSE IF name = "x-user-id" THEN {None, E2}
    ELSE {None, E2, Bearer \o E1}

Headers == {h \in [HeaderNames -> {None, <<>>, E1, E2, Bearer \o E1}] :
               \A name \in HeaderNames : h[name] \in HeaderValues(name)}

NoRoles == [is_none |-> TRUE, list |-> <<>>]

RoleLists == { [is_none |-> FALSE, list |-> <<>>],
               [is_none |-> FALSE, list |-> <<ADMIN>>],
               [is_none |-> FALSE, list |-> <<USER, ADMIN>>] }

Req(adapter, h, auto, rr) ==
    [ adapter |-> adapter, headers |-> h, auto_create |-> auto,
      required_roles |-> rr, before |-> store, down |-> storeDown ]

\* the worker a new request runs in: the first that has none in flight
Free == CHOOSE p \in Procs : Idle(p) /\ \A q \in Procs : Idle(q) => p <= q

InFlight(req, r) == [op |-> "request", req |-> req, resp |-> r]

\* the request arrives and runs up to the return of get_user: r is what the
\* adapter made of it by then
Handle(req, r) ==
    /\ ncalls < MaxRequests
    /\ \E p \in Procs : Idle(p)
    /\ ncalls' = ncalls + 1
    /\ IF r.pending
       THEN /\ cur' = [cur EXCEPT ![Free] = InFlight(req, r)]
            /\ UNCHANGED <<store, request, response>>
       ELSE /\ request' = req
            /\ response' = [r EXCEPT !.fault = storeDown /\ r.ops # <<>>]
            /\ store' = r.store
            /\ UNCHANGED cur
    /\ UNCHANGED <<storeDown, prev, last, schema>>

\* the request of worker p runs from its create_user to its end
Finish(p, r) ==
    /\ request' = cur[p].req
    /\ response' = [r EXCEPT !.fault = storeDown]
    /\ store' = r.store
    /\ cur' = [cur EXCEPT ![p] = NoCall]
    /\ UNCHANGED <<storeDown, prev, last, ncalls, schema>>

\* a route wrapped by @require_auth(verifier, required_roles, auto_create=)
FlaskRequest(h, auto, rr) ==
    Handle(Req("flask", h, auto, rr),
           require_auth(store, storeDown, Req("flask", h, auto, rr)))

\* the same route, from the create_user of its wrapper on
FlaskCreate(p) ==
    /\ cur[p].op = "request" /\ cur[p].req.adapter = "flask"
    /\ Finish(p, require_auth_create(store, storeDown, cur[p].req, cur[p].resp))

\* a route with Depends(get_current_user_fastapi(verifier, auto_create=))
FastapiUserRequest(h, auto) ==
    Handle(Req("fastapi_user", h, auto, NoRoles),
           get_current_user_fastapi(store, storeDown,
                                    Req("fastapi_user", h, auto, NoRoles)))

\* a route with Depends(require_role_fastapi(verifier, required_roles, auto_create=))
FastapiRoleRequest(h, auto, rr) ==
    Handle(Req("fastapi_role", h, auto, rr),
           require_role_fastapi(Req("fastapi_role", h, auto, rr),
               get_current_user_fastapi(store, storeDown,
                                        Req("fastapi_role", h, auto, rr))))

\* either FastAPI route, from the create_user of _get_current_user on
FastapiCreate(p) ==
    /\ cur[p].op = "request" /\ cur[p].req.adapter \in {"fastapi_user", "fastapi_role"}
    /\ LET made == get_current_user_create(store, storeDown, cur[p].req, cur[p].resp)
       IN  Finish(p, IF cur[p].req.adapter = "fastapi_role"
                     THEN require_role_fastapi(cur[p].req, made)
                     ELSE made)

InitAdapters ==
    /\ store \in InitStores
    /\ storeDown = FALSE
    /\ cur = [p \in Procs |-> NoCall]
    /\ prev = NoCall
    /\ last = NoCall
    /\ ncalls = 0
    /\ request = NoRequest
    /\ response = NoRequest
    /\ schema = NoSchema

NextAdapters ==
    \/ \E h \in Headers, auto \in BOOLEAN,
          rr \in RoleLists \cup {NoRoles} : FlaskRequest(h, auto, rr)
    \/ \E h \in Headers, auto \in BOOLEAN :
          FastapiUserRequest(h, auto)
    \/ \E h \in Headers, auto \in BOOLEAN,
          rr \in RoleLists : FastapiRoleRequest(h, auto, rr)
    \/ \E p \in Procs : FlaskCreate(p)
    \/ \E p \in Procs : FastapiCreate(p)
    \/ StoreOutage

SpecAdapters == InitAdapters /\ [][NextAdapters]_vars

----------------------------------------------------------------------------
(* The User round trip.  A User is made either by User.__init__ from its   *)
(* arguments or by from_dict from a stored document (what get_user         *)
(* returns); it is then written with to_dict and read back with from_dict. *)
(* A construction that raises ends the round trip (phase "raised").        *)

E3 == <<"@","x">>

ArgValues(field) ==
    IF field = "user_id" THEN {E2}
    ELSE IF field = "email" THEN {E1, E3, <<>>}
    ELSE IF field = "username" THEN {None, <<>>, <<"n">>}
    ELSE IF field = "role" THEN {None, <<>>, ADMIN}
    ELSE IF field = "display_name" THEN {None, <<>>, <<"D">>}
    ELSE {PyTrue, PyFalse}

\* a stored document may lack any key, or hold null for it
DocValues(field) ==
    IF field = "is_active" THEN {PyTrue, PyFalse, None, Missing}
    ELSE ArgValues(field) \cup {None, Missing}

SchemaFields == {"user_id", "email", "username", "role", "display_name", "is_active"}

SchemaValues == UNION {DocValues(f) : f \in SchemaFields}

SchemaArgs == {a \in [SchemaFields -> SchemaValues] :
                  \A f \in SchemaFields : a[f] \in ArgValues(f)}

SchemaDocs == {a \in [SchemaFields -> SchemaValues] :
                  \A f \in SchemaFields : a[f] \in DocValues(f)}

\* the stored document with these fields, its other keys absent
DocOf(a) ==
    [NoDoc EXCEPT !.id = IdPrefix \o E2, !.type = USER, !.user_id = a["user_id"],
                  !.email = a["email"], !.username = a["username"],
                  !.role = a["role"], !.display_name = a["display_name"],
                  !.is_active = a["is_active"]]

InitSchema ==
    /\ store = {}
    /\ storeDown = FALSE
    /\ cur = [p \in Procs |-> NoCall]
    /\ prev = NoCall
    /\ last = NoCall
    /\ ncalls = 0
    /\ request = NoRequest
    /\ response = NoRequest
    /\ \E via \in {"init", "from_dict"} :
       \E a \in IF via = "init" THEN SchemaArgs ELSE SchemaDocs :
          schema = [phase |-> "input", via |-> via, input |-> a,
                    user |-> NoUser, data |-> NoDoc, back |-> NoUser]

\* User(user_id=, email=, username=, role=, display_name=, is_active=)
SchemaConstruct ==
    /\ schema.phase = "input" /\ schema.via = "init"
    /\ LET u == User(schema.input["user_id"], schema.input["email"],
                     schema.input["username"], schema.input["role"],
                     schema.input["display_name"], schema.input["is_active"], NoKw)
       IN  schema' = [schema EXCEPT !.phase = IF u = RaisedUser THEN "raised"
                                               ELSE "user",
                                    !.user = u]
    /\ UNCHANGED <<store, storeDown, cur, prev, last, ncalls, request, response>>

\* User.from_dict(item), as get_user makes the user it returns
SchemaLoad ==
    /\ schema.phase = "input" /\ schema.via = "from_dict"
    /\ LET u == from_dict(DocOf(schema.input))
       IN  schema' = [schema EXCEPT !.phase = IF u = RaisedUser THEN "raised"
                                               ELSE "user",
                                    !.user = u]
    /\ UNCHANGED <<store, storeDown, cur, prev, last, ncalls, request, response>>

SchemaToDict ==
    /\ schema.phase = "user"
    /\ schema' = [schema EXCEPT !.phase = "dict", !.data = to_dict(schema.user)]
    /\ UNCHANGED <<store, storeDown, cur, prev, last, ncalls, request, response>>

SchemaFromDict ==
    /\ schema.phase = "dict"
    /\ schema' = [schema EXCEPT !.phase = "back", !.back = from_dict(schema.data)]
    /\ UNCHANGED <<store, storeDown, cur, prev, last, ncalls, request, response>>

NextSchema ==
    \/ SchemaConstruct
    \/ SchemaLoad
    \/ SchemaToDict
    \/ SchemaFromDict

SpecSchema == InitSchema /\ [][NextSchema]_vars

----------------------------------------------------------------------------
(* Properties of the request adapters (SpecAdapters) *)

Handled == request.adapter # "none"

\* the stored documents a point lookup of identity uid hits, before the request
StoredFor(uid) == Hits(request.before, IdPrefix \o uid, uid)

\* the role of the user get_user makes of the stored document of uid
StoredRole(uid) == from_dict(CHOOSE d \in StoredFor(uid) : TRUE).role

NoIdentityHeader == \A name \in HeaderNames : ~Truthy(request.headers[name])

\* C1: a request in which no identity header (the primary header, x-user-id,
\* Authorization) carries a non-empty value is answered 401 by either adapter,
\* by the FastAPI adapters with WWW-Authenticate: Bearer; the handler does not
\* run and no store operation is issued, whatever auto_create, required_roles
\* and the state of the store are.
C1_NoIdentityIsUnauthorized ==
    (Handled /\ NoIdentityHeader) =>
        /\ response.status = 401
        /\ ~response.handler
        /\ response.ops = <<>>
        /\ response.store = request.before
        /\ (request.adapter # "flask" => response.www_authenticate = WwwBearer)

\* A FastAPI route with a role list and auto_create on, reached by a request
\* whose primary header is present but empty, while the store is down.
C1_Witness ==
    /\ request.adapter = "fastapi_role"
    /\ NoIdentityHeader
    /\ request.headers[header_name] = <<>>
    /\ request.auto_create
    /\ ListTruthy(request.required_roles)
    /\ request.down
    /\ response.status = 401

\* C2: when the identity of a request resolves to a stored user (the store
\* answers and get_user makes a user of the record) whose role is not in the configured required-role list, the Flask wrapper and
\* require_role_fastapi answer 403, the handler does not run, nothing is
\* attached to the request context and no user is handed to the route; and the
\* handler runs only when the role is in the list or no list is configured.
C2_RoleMismatchIsForbidden ==
    (/\ request.adapter \in {"flask", "fastapi_role"}
     /\ ~response.fault
     /\ response.identity # None
     /\ StoredFor(response.identity) # {}
     /\ \A d \in StoredFor(response.identity) : from_dict(d) # RaisedUser) =>
        /\ (/\ ~request.required_roles.is_none
            /\ ~InList(StoredRole(response.identity), request.required_roles)) =>
               /\ response.status = 403
               /\ ~response.handler
               /\ response.g = NoG
               /\ response.injected = NoUser
        /\ response.handler =>
               \/ request.required_roles.is_none
               \/ InList(StoredRole(response.identity), request.required_roles)

\* v[7:] when v starts with "Bearer ", else v
StripBearer(v) == IF StartsWith(v, Bearer) THEN SubSeq(v, 7 + 1, Len(v)) ELSE v

\* C3: in both adapters the identity of the lookup is the primary header if it
\* is non-empty, else the x-user-id header, else the Authorization header with
\* its "Bearer " prefix stripped, and a request is refused for want of an
\* identity only when all three are absent.  Stated here for the requests on
\* which the wording leaves no doubt: an x-user-id value that itself starts
\* with "Bearer " and an Authorization value that is nothing but the prefix
\* are left out.
C3_HeaderPrecedence ==
    Handled =>
        LET first == request.headers[header_name]
            xid   == request.headers["x-user-id"]
            auth  == request.headers["Authorization"]
        IN  /\ Truthy(first) => response.identity = first
            /\ (~Truthy(first) /\ Truthy(xid) /\ ~StartsWith(xid, Bearer)) =>
                   response.identity = xid
            /\ (~Truthy(first) /\ ~Truthy(xid) /\ Truthy(auth)
                /\ StripBearer(auth) # <<>>) =>
                   response.identity = StripBearer(auth)
            /\ (response.identity = None) =>
                   /\ response.status = 401
                   /\ ~Truthy(first)
                   /\ ~Truthy(xid) \/ StartsWith(xid, Bearer)
                   /\ ~Truthy(auth) \/ StripBearer(auth) = <<>>

\* C10: auto-create writes before the role is checked.  With auto_create on and
\* a non-empty role list without the base role, a request that carries an
\* identity with no stored record, the store answering, is answered 403 without
\* the handler running, and the store then holds a new record of that identity
\* with role "user".  A request answered 401 leaves the store as it was.
C10_AutoCreateBeforeRoleCheck ==
    Handled =>
        /\ (/\ request.adapter \in {"flask", "fastapi_role"}
            /\ request.auto_create
            /\ ListTruthy(request.required_roles)
            /\ ~InList(USER, request.required_roles)
            /\ ~response.fault
            /\ response.identity # None
            /\ StoredFor(response.identity) = {}) =>
               /\ response.status = 403
               /\ ~response.handler
               /\ \E d \in response.store \ request.before :
                     /\ d.id = IdPrefix \o response.identity
                     /\ d.user_id = response.identity
                     /\ d.role = USER
        /\ response.status = 401 => response.store = request.before

\* A Flask request refused with 403 that left a new record behind.
C10_Witness ==
    /\ request.adapter = "flask"
    /\ response.status = 403
    /\ response.identity = E1
    /\ StoredFor(E1) = {}
    /\ response.store # request.before

----------------------------------------------------------------------------
(* Properties of the User round trip (SpecSchema) *)

\* C8: for every User made by User.__init__ or by from_dict of a stored
\* document, from_dict(to_dict(U)) is made without raising and has the role,
\* display_name and is_active of U, also where the stored role, display_name
\* or username were absent or null.
C8_RoundTrip ==
    schema.phase = "back" =>
        /\ schema.back # RaisedUser
        /\ schema.back.role = schema.user.role
        /\ schema.back.display_name = schema.user.display_name
        /\ schema.back.is_active = schema.user.is_active

\* The round trip of an inactive user read from a document without role,
\* display_name and username.
C8_Witness ==
    /\ schema.phase = "back"
    /\ schema.via = "from_dict"
    /\ schema.input["role"] = Missing
    /\ schema.input["display_name"] = Missing
    /\ schema.input["username"] = Missing
    /\ schema.input["is_active"] = PyFalse
    /\ schema.back.is_active = PyFalse
    /\ schema.back.role = USER

----------------------------------------------------------------------------
(* Properties of the verifier (SpecVerifier) *)

\* the stored documents a point lookup of email e hits in store st
Found(st, e) == Hits(st, IdPrefix \o e, e)

\* every stored document that is about e: by key, by user_id or by email
About(st, e) == {d \in st : d.id = IdPrefix \o e \/ d.user_id = e \/ d.email = e}

\* the document a get_or_create_user call c writes when its lookup misses
Written(c) ==
            [ id |-> IdPrefix \o c.email, type |-> USER, user_id |-> c.email,
              email |-> c.email,
              username |-> IF c.username = None THEN SplitAt0(c.email) ELSE c.username,
              role |-> IF c.role = None THEN USER ELSE c.role,
              display_name |-> IF c.display_name # None THEN c.display_name
                               ELSE IF c.username # None THEN c.username
                               ELSE c.email,
              is_active |-> PyTrue, agents |-> <<>>, created_at |-> None,
              updated_at |-> None ]

\* u is the part of e before its first "@" (all of e when it has none)
IsLocalPart(u, e) ==
    \E k \in 0..Len(e) :
        /\ u = SubSeq(e, 1, k)
        /\ \A i \in 1..k : e[i] # "@"
        /\ k = Len(e) \/ e[k + 1] = "@"

\* C4: two sequential calls get_or_create_user(email), the store answering
\* and nothing written in between, both return a user with id "user_" + email
\* and user_id email, whether the user was stored before or not; the second
\* call finds the record, issues its lookup and no upsert, and leaves the
\* store as the first call left it.
C4_GetOrCreateTwice ==
    (/\ prev.op = "get_or_create_user" /\ last.op = "get_or_create_user"
     /\ prev.email = last.email
     /\ ~prev.fault /\ ~last.fault
     /\ last.before = prev.after) =>
        /\ prev.kind = "user" /\ last.kind = "user"
        /\ prev.user.id = IdPrefix \o prev.email
        /\ prev.user.user_id = prev.email
        /\ last.user.id = prev.user.id
        /\ last.user.user_id = prev.user.user_id
        /\ last.ops = <<"read_item">>
        /\ last.after = prev.after

\* C5: two get_or_create_user calls on the same email that no record existed
\* for, their lookups and creates interleaved in any order and the store
\* answering: both return a user, and the store then holds exactly one record
\* about that email, under key "user_" + email, which is whole the document one
\* of the two callers wrote.
C5_ConcurrentGetOrCreate ==
    (/\ prev.op = "get_or_create_user" /\ last.op = "get_or_create_user"
     /\ prev.email = last.email
     /\ prev.proc # last.proc
     /\ ~prev.fault /\ ~last.fault
     /\ Found(prev.before, prev.email) = {}
     /\ Found(last.before, last.email) \subseteq {Written(prev)}) =>
        /\ prev.kind = "user" /\ last.kind = "user"
        /\ prev.user.id = IdPrefix \o prev.email
        /\ last.user.id = IdPrefix \o last.email
        /\ \/ About(last.after, last.email) = {Written(prev)}
           \/ About(last.after, last.email) = {Written(last)}
        /\ Found(last.after, last.email) = About(last.after, last.email)

\* Both lookups missed, both callers wrote, with different roles; the record
\* of the last writer is the one stored.
C5_Witness ==
    /\ prev.op = "get_or_create_user" /\ last.op = "get_or_create_user"
    /\ prev.email = E1 /\ last.email = E1
    /\ prev.proc # last.proc
    /\ prev.ops = <<"read_item", "upsert_item">>
    /\ last.ops = <<"read_item", "upsert_item">>
    /\ Found(last.before, E1) = {}
    /\ prev.kind = "user" /\ last.kind = "user"
    /\ prev.user.role # last.user.role
    /\ About(last.after, E1) = {Written(last)}

\* C6: create_user(E) without optional arguments, then get_user(E) with no
\* write in between and the store answering: get_user returns a user whose
\* username is the part of E before the first "@", whose role is "user" and
\* whose is_active is true, made from the record create_user stored under key
\* "user_" + E with user_id E.
C6_CreateThenGet ==
    (/\ prev.op = "create_user" /\ last.op = "get_user"
     /\ prev.email = last.email
     /\ prev.username = None /\ prev.role = None /\ prev.display_name = None
     /\ ~prev.fault /\ ~last.fault
     /\ last.before = prev.after) =>
        /\ prev.kind = "user" /\ last.kind = "user"
        /\ IsLocalPart(last.user.username, prev.email)
        /\ last.user.role = USER
        /\ last.user.is_active = PyTrue
        /\ \E d \in prev.after :
              /\ d.id = IdPrefix \o prev.email
              /\ d.user_id = prev.email
              /\ from_dict(d) = last.user

\* create_user("a@b@c") then get_user("a@b@c"): username "a".
C6_Witness ==
    /\ prev.op = "create_user" /\ last.op = "get_user"
    /\ prev.email = E1 /\ last.email = E1
    /\ prev.username = None /\ prev.role = None /\ prev.display_name = None
    /\ last.before = prev.after
    /\ last.kind = "user"
    /\ last.user.username = <<"a">>

\* C7: update_user_role returns True or False and never raises.  On a user_id
\* without a stored record, and on any failure of the patch, it returns False
\* and the store is as it was; it returns True only when the patch succeeded,
\* and then the store differs from before in the role of that one record only.
C7_UpdateRole ==
    last.op = "update_user_role" =>
        /\ last.kind \in {"true", "false"}
        /\ last.ops = <<"patch_item">>
        /\ Found(last.before, last.email) = {} =>
               last.kind = "false" /\ last.after = last.before
        /\ last.fault => last.kind = "false"
        /\ last.kind = "false" => last.after = last.before
        /\ last.kind = "true" =>
               /\ ~last.fault
               /\ \E d \in Found(last.before, last.email) :
                     last.after = (last.before \ {d})
                                      \cup {[d EXCEPT !.role = last.role]}

\* update_user_role on a user that is not stored, the store answering.
C7_Witness ==
    /\ last.op = "update_user_role"
    /\ ~last.fault
    /\ last.before # {}
    /\ Found(last.before, last.email) = {}
    /\ last.kind = "false"
    /\ last.after = last.before

\* C9: get_user returns the user (made by from_dict of the record) when the
\* point read finds a record, None when the store signals not-found, and
\* raises when the read fails otherwise; verify_user_exists returns True,
\* False, False in these cases and never raises.  Each issues the one read
\* and leaves the store unchanged.
C9_ReadOutcomes ==
    /\ last.op = "get_user" =>
           /\ last.ops = <<"read_item">>
           /\ last.after = last.before
           /\ last.fault => last.kind = "raised"
           /\ (~last.fault /\ Found(last.before, last.email) = {}) =>
                  last.kind = "none"
           /\ (~last.fault /\ Found(last.before, last.email) # {}) =>
                  /\ last.kind = "user"
                  /\ \E d \in Found(last.before, last.email) :
                        last.user = from_dict(d)
    /\ last.op = "verify_user_exists" =>
           /\ last.ops = <<"read_item">>
           /\ last.after = last.before
           /\ last.kind =
                  IF ~last.fault /\ Found(last.before, last.email) # {}
                  THEN "true" ELSE "false"

\* C11: get_or_create_user issues its upsert only after its own lookup
\* returned not-found: a call whose lookup found a record writes nothing, so
\* a call made after update_user_role returned True leaves the record alone,
\* with the role that was set, and a user it returns has that role.  The lookup and the upsert
\* being two store operations, a call whose lookup missed replaces whatever
\* was stored for the email in between: after update_user_role returned True
\* for role R, the upsert of such a call leaves the whole record as that call
\* writes it, with the role it was passed ("user" by default), and R is lost.
C11_LookupThenUpsert ==
    /\ last.op = "get_or_create_user" =>
           /\ last.ops \in {<<"read_item">>, <<"read_item", "upsert_item">>}
           /\ last.ops = <<"read_item", "upsert_item">> =>
                  Found(last.before, last.email) = {}
           /\ Found(last.before, last.email) # {} =>
                  /\ last.ops = <<"read_item">>
                  /\ last.after = last.before
    /\ (/\ prev.op = "update_user_role" /\ prev.kind = "true"
        /\ last.op = "get_or_create_user" /\ last.email = prev.email
        /\ ~last.fault) =>
           /\ last.before = prev.after =>
                  /\ last.ops = <<"read_item">>
                  /\ last.after = prev.after
                  /\ last.kind = "user" => last.user.role = prev.role
                  /\ \A d \in Found(last.after, last.email) : d.role = prev.role
           /\ last.ops = <<"read_item", "upsert_item">> =>
                  /\ last.before # prev.after
                  /\ Found(last.after, last.email) = {Written(last)}
                  /\ \A d \in Found(last.after, last.email) :
                        d.role = IF last.role = None THEN USER ELSE last.role

\* The lost update: the lookup of get_or_create_user(E1) missed, the record
\* was created by another caller, update_user_role(E1, "moderator") returned
\* True, and the upsert then put the role back to "user".
C11_Witness ==
    /\ prev.op = "update_user_role" /\ prev.kind = "true"
    /\ prev.email = E1 /\ prev.role = MODERATOR
    /\ \E d \in Found(prev.after, E1) : d.role = MODERATOR
    /\ last.op = "get_or_create_user" /\ last.email = E1
    /\ last.role = None
    /\ last.ops = <<"read_item", "upsert_item">>
    /\ Found(last.before, E1) = {}
    /\ last.kind = "user"
    /\ store = last.after
    /\ \A d \in Found(store, E1) : d.role = USER

====
